---- MODULE Spec2Model ----
(***************************************************************************)
(* Model of the Tauri backend commands of Claude-Samurai                   *)
(* (src-tauri/src/commands.rs, helper.rs): the profile store kept in       *)
(* ~/.ccconfig/stores.json and mirrored into ~/.claude/settings.json, and  *)
(* the scope merge of MCP server definitions.                              *)
(***************************************************************************)
EXTENDS Integers, Sequences, FiniteSets, TLC

(***************************************************************************)
(* JSON values.  A file or a value is a record [kind, m]:                  *)
(*   kind = "absent"  the file does not exist                              *)
(*   kind = "bad"     the file exists and serde_json cannot parse it       *)
(*   kind = "arr"     a well-formed JSON value that is not an object       *)
(*   kind = "obj"     a JSON object, m maps its top-level keys to values   *)
(***************************************************************************)
EmptyMap == [k \in {} |-> ""]

Absent == [kind |-> "absent", m |-> EmptyMap]

Bad == [kind |-> "bad", m |-> EmptyMap]

Arr == [kind |-> "arr", m |-> EmptyMap]

Obj(map) == [kind |-> "obj", m |-> map]

\* serde_json::json!({}) as the value of a key
EmptyObject == "{}"

\* bounds of the model: profiles in the collection, commands in a run
MaxConfigs == 2

MaxSteps == 3

\* toggle commands issued in one behaviour
MaxToggles == 2

\* install / uninstall commands issued in one behaviour
MaxInstalls == 3

\* identifiers, titles and settings payloads the caller (the UI) may send
Ids == {"p1", "p2"}

\* nanoid::nanoid!(6) draws the identifier of the synthetic profile at random
NanoIds == {"n1"}

\* a caller may pass any string as an identifier, in particular one read
\* back from the collection
CallerIds == Ids \cup NanoIds

Titles == {"T1", "T2"}

OriginalTitle == "Original Config"

SettingsChoices == {Obj([b |-> "9", c |-> "3"]), Obj([env |-> "FOO"]), Arr}

\* contents ~/.claude/settings.json may have before the application runs
InitialLive == {Absent, Bad, Arr, Obj([a |-> "1", b |-> "2"])}

\* MCP server names, the project directory, and cwd = None
Names == {"s1", "s2"}

Proj == "/proj"

NoCwd == "none"

CwdChoices == {NoCwd, Proj}

VARIABLES
    stores_file,     \* ~/.ccconfig/stores.json: "absent", "bad" or "ok"
    configs,         \* StoresData.configs persisted in stores.json
    notification,    \* StoresData.notification is Some(..) in stores.json
    user_settings,   \* ~/.claude/settings.json, a JSON file value
    last,            \* the last profile command and its result
    steps,           \* number of commands issued so far, where bounded
    mcp_json,        \* ~/.mcp.json
    claude_json,     \* ~/.claude.json
    local_mcp,       \* <project>/.mcp.json
    plugins,         \* installs of installed_plugins.json, as resolved
    overlay,         \* MCP overlay arrays of the three settings files
    view,            \* result of the last get_mcp_servers_with_state
    global_servers,  \* result of the last get_global_mcp_servers
    last_toggle,     \* the last toggle command and its result
    manifest,        \* ~/.ccconfig/security_packs/installed.json
    md_files,        \* ~/.claude/agents/<id>.md and ~/.claude/commands/<id>.md
    skill_dirs,      \* ~/.claude/skills/<id>
    last_template,   \* the last install / uninstall command and its result
    app_dir,         \* the directory ~/.ccconfig exists
    distinct_id,     \* StoresData.distinct_id persisted in stores.json
    last_id,         \* what the last get_or_create_distinct_id returned
    hash_order,      \* order in which the next HashMap of plugins iterates
    hook_task,       \* the startup task update_claude_code_hook: position and copy
    activation       \* a set_using_config call in progress: position and copy

profileVars == <<stores_file, configs, notification, user_settings, last, steps>>

mcpVars == <<mcp_json, claude_json, local_mcp, plugins, overlay, view, global_servers,
            last_toggle, hash_order>>

templateVars == <<manifest, md_files, skill_dirs, last_template>>

storeMeta == <<app_dir, distinct_id, last_id>>

taskVars == <<hook_task, activation>>

vars == <<profileVars, mcpVars, templateVars, storeMeta, taskVars>>

(***************************************************************************)
(* Profile store                                                           *)
(***************************************************************************)
\* ConfigStore
ConfigStore(id, title, settings, using) ==
    [id |-> id, title |-> title, settings |-> settings, using |-> using]

\* result of a command: its name, Ok / Err, and the using flag of the
\* ConfigStore it returned (FALSE when it returns none)
Result(op, ok, using) == [op |-> op, ok |-> ok, using |-> using]

NoResult == Result("init", TRUE, FALSE)

\* Path::exists()
Exists(file) == file.kind # "absent"

\* helper.rs read_json_file: an absent file reads as {}, a bad one is Err
ReadOk(file) == file.kind # "bad"

read_json_file(file) == IF file.kind = "absent" THEN Obj(EmptyMap) ELSE file

\* the partial update of settings.json repeated in create_config,
\* set_using_config and update_config
MergeSettings(existing, settings) ==
    IF settings.kind = "obj" /\ existing.kind = "obj"
    THEN Obj([k \in (DOMAIN existing.m) \cup (DOMAIN settings.m) |->
                IF k \in DOMAIN settings.m THEN settings.m[k] ELSE existing.m[k]])
    ELSE settings

\* read_stores_file: the configs a command works on (default when absent)
ReadConfigs == IF stores_file = "absent" THEN <<>> ELSE configs

ReadNotification == IF stores_file = "absent" THEN FALSE ELSE notification

HasId(cs, id) == \E i \in 1..Len(cs) : cs[i].id = id

\* a command that returns Err before writing anything
Fail(op) ==
    /\ last' = Result(op, FALSE, FALSE)
    /\ UNCHANGED <<stores_file, configs, notification, user_settings>>

\* variant: the capture ignores whether settings.json exists
WithOriginal_m(cs, file) == cs = <<>>

\* create_config captures an "Original Config" store when the collection is
\* empty and settings.json exists
WithOriginal(cs, file) == cs = <<>> /\ Exists(file)

create_config(id, title, settings, nano) ==
    LET cs == ReadConfigs
        should_be_active == cs = <<>>
        withOriginal == WithOriginal(cs, user_settings)
        original == ConfigStore(nano, OriginalTitle, user_settings, FALSE)
        new_store == ConfigStore(id, title, settings, should_be_active)
    IN  /\ Len(cs) + (IF withOriginal THEN 2 ELSE 1) <= MaxConfigs
        /\ IF stores_file = "bad" \/ (should_be_active /\ ~ReadOk(user_settings))
           THEN Fail("create_config")
           ELSE /\ user_settings' =
                      IF should_be_active
                      THEN MergeSettings(read_json_file(user_settings), settings)
                      ELSE user_settings
                /\ configs' = (IF withOriginal THEN Append(cs, original) ELSE cs)
                                \o <<new_store>>
                /\ stores_file' = "ok"
                /\ notification' = TRUE
                /\ last' = Result("create_config", TRUE, new_store.using)

\* variant: only the first store carrying store_id is removed
Retain_m(cs, store_id) ==
    LET hit == {i \in 1..Len(cs) : cs[i].id = store_id}
    IN  IF hit = {} THEN cs
        ELSE LET f == CHOOSE i \in hit : \A j \in hit : i <= j
             IN  SubSeq(cs, 1, f - 1) \o SubSeq(cs, f + 1, Len(cs))

\* Vec::retain(|store| store.id != store_id)
Retain(cs, store_id) == SelectSeq(cs, LAMBDA store : store.id # store_id)

\* variant: no "Store not found" check, the collection is written back as is
delete_config_m(store_id) ==
    IF stores_file # "ok"
    THEN Fail("delete_config")
    ELSE /\ configs' = Retain(configs, store_id)
         /\ last' = Result("delete_config", TRUE, FALSE)
         /\ UNCHANGED <<stores_file, notification, user_settings>>

delete_config(store_id) ==
    IF \/ stores_file # "ok"
       \/ ~HasId(configs, store_id)
    THEN Fail("delete_config")
    ELSE /\ configs' = Retain(configs, store_id)
         /\ last' = Result("delete_config", TRUE, FALSE)
         /\ UNCHANGED <<stores_file, notification, user_settings>>

\* the loop of set_using_config over &mut stores_data.configs
SetUsing(cs, store_id) ==
    [i \in 1..Len(cs) |-> [cs[i] EXCEPT !.using = (cs[i].id = store_id)]]

\* selected_store_settings: the loop overwrites it at every match, so the
\* settings of the last store carrying store_id are the ones kept
SelectedSettings(cs, store_id) ==
    LET last_match == CHOOSE i \in 1..Len(cs) :
                          /\ cs[i].id = store_id
                          /\ \A j \in (i+1)..Len(cs) : cs[j].id # store_id
    IN  cs[last_match].settings

set_using_config(store_id) ==
    IF \/ stores_file # "ok"
       \/ ~HasId(configs, store_id)
       \/ ~ReadOk(user_settings)
    THEN Fail("set_using_config")
    ELSE /\ user_settings' = MergeSettings(read_json_file(user_settings),
                                           SelectedSettings(configs, store_id))
         /\ configs' = SetUsing(configs, store_id)
         /\ last' = Result("set_using_config", TRUE, FALSE)
         /\ UNCHANGED <<stores_file, notification>>

\* for store in &mut stores_data.configs { store.using = false; }
ClearUsing(cs) == [i \in 1..Len(cs) |-> [cs[i] EXCEPT !.using = FALSE]]

\* existing_obj.insert("env", json!({})) when settings.json is an object
ClearEnv(existing) ==
    IF existing.kind = "obj"
    THEN Obj([k \in (DOMAIN existing.m) \cup {"env"} |->
                IF k = "env" THEN EmptyObject ELSE existing.m[k]])
    ELSE existing

reset_to_original_config ==
    IF stores_file = "bad"
    THEN Fail("reset_to_original_config")
    ELSE \* stores.json is rewritten first, settings.json is read afterwards
         /\ configs' = ClearUsing(configs)
         /\ user_settings' = IF ReadOk(user_settings)
                             THEN ClearEnv(read_json_file(user_settings))
                             ELSE user_settings
         /\ last' = Result("reset_to_original_config", ReadOk(user_settings), FALSE)
         /\ UNCHANGED <<stores_file, notification>>

\* configs.iter().position(|store| store.id == store_id)
Position(cs, store_id) ==
    CHOOSE i \in 1..Len(cs) :
        /\ cs[i].id = store_id
        /\ \A j \in 1..(i-1) : cs[j].id # store_id

\* variant: settings.json is written for every updated store
UpdateWritesLive_m(store) == TRUE

\* if store.using: update_config mirrors the store into settings.json
UpdateWritesLive(store) == store.using

update_config(store_id, title, settings) ==
    IF \/ stores_file # "ok"
       \/ ~HasId(configs, store_id)
    THEN Fail("update_config")
    ELSE LET store_index == Position(configs, store_id)
             write_live == UpdateWritesLive(configs[store_index])
         IN  IF write_live /\ ~ReadOk(user_settings)
             THEN Fail("update_config")
             ELSE /\ configs' = [configs EXCEPT ![store_index].title = title,
                                                ![store_index].settings = settings]
                  /\ user_settings' =
                        IF write_live
                        THEN MergeSettings(read_json_file(user_settings), settings)
                        ELSE user_settings
                  /\ last' = Result("update_config", TRUE,
                                    configs[store_index].using)
                  /\ UNCHANGED <<stores_file, notification>>

\* get_stores: fills in the default notification settings and persists them;
\* the write is a plain std::fs::write, which needs ~/.ccconfig to exist
GetStoresOk == stores_file # "bad" /\ (ReadNotification \/ app_dir)

GetStoresWrite ==
    /\ stores_file' = IF ReadNotification THEN stores_file ELSE "ok"
    /\ notification' = TRUE
    /\ UNCHANGED <<configs, user_settings>>

get_stores ==
    IF ~GetStoresOk
    THEN Fail("get_stores")
    ELSE /\ GetStoresWrite
         /\ last' = Result("get_stores", TRUE, FALSE)

\* get_store: get_stores, then find the store by id
get_store(store_id) ==
    IF ~GetStoresOk
    THEN Fail("get_store")
    ELSE /\ GetStoresWrite
         /\ last' = IF HasId(configs, store_id)
                    THEN Result("get_store", TRUE,
                                configs[Position(configs, store_id)].using)
                    ELSE Result("get_store", FALSE, FALSE)

Command ==
    \/ \E id \in Ids, title \in Titles, settings \in SettingsChoices, nano \in NanoIds :
           create_config(id, title, settings, nano)
    \/ \E id \in CallerIds : delete_config(id)
    \/ \E id \in CallerIds : set_using_config(id)
    \/ reset_to_original_config
    \/ \E id \in CallerIds, title \in Titles, settings \in SettingsChoices :
           update_config(id, title, settings)
    \/ get_stores
    \/ \E id \in CallerIds : get_store(id)

(***************************************************************************)
(* MCP servers: the sources, the scope merge and the enablement state      *)
(***************************************************************************)
\* a registration file: kind as above, servers = the names under an
\* object-valued mcpServers key
McpFile(kind, servers) == [kind |-> kind, servers |-> servers]

\* ~/.claude.json: root mcpServers and disabledMcpServers, and the entry
\* projects[Proj] (registered = the key exists) with its mcpServers and,
\* when project_disabled_present, its disabledMcpServers array
ClaudeJson(kind, servers, disabled, registered, project_servers, project_disabled_present, project_disabled) ==
    [kind |-> kind, servers |-> servers, disabled |-> disabled,
     registered |-> registered, project_servers |-> project_servers,
     project_disabled_present |-> project_disabled_present,
     project_disabled |-> project_disabled]

\* PluginInstallInfo with what read_plugin_mcp_servers resolves for it:
\* enabled (enabledPlugins, default true) and the servers of its .mcp.json
\* (empty when the package has no MCP capability or no .mcp.json)
Install(plugin, scope, project_path, enabled, servers) ==
    [plugin |-> plugin, scope |-> scope, project_path |-> project_path,
     enabled |-> enabled, servers |-> servers]

\* a settings file as the MCP commands read it
Overlay(kind, enabled, disabled) ==
    [kind |-> kind, enabled |-> enabled, disabled |-> disabled]

\* McpServer; config names the definition (the source it was read from)
McpServer(config, source_type, scope, defined_in, controllable) ==
    [config |-> config, source_type |-> source_type, scope |-> scope,
     defined_in |-> defined_in, controllable |-> controllable]

NoServers == [n \in {} |-> McpServer("", "", "", "", FALSE)]

\* HashMap::insert for every entry of src
Overwrite(map, src) ==
    [n \in (DOMAIN map) \cup (DOMAIN src) |->
        IF n \in DOMAIN src THEN src[n] ELSE map[n]]

\* HashMap::entry(name).or_insert_with(..) for every entry of src
OrInsert(map, src) ==
    [n \in (DOMAIN map) \cup (DOMAIN src) |->
        IF n \in DOMAIN map THEN map[n] ELSE src[n]]

\* helper.rs read_json_file_mcp_servers, Ok case (Err and absent give none)
ReadMcpServers(file) == IF file.kind = "obj" THEN file.servers ELSE {}

\* helper.rs get_project_path_from_claude_json(cwd) is Ok(Some(path))
ProjectPathKnown(cwd) ==
    cwd = Proj /\ claude_json.kind = "obj" /\ claude_json.registered

\* read_mcpjson_servers
UserMcpjson ==
    [n \in ReadMcpServers(mcp_json) |->
        McpServer("cfg_user_mcpjson", "mcpjson", "user", "~/.mcp.json", TRUE)]

\* read_direct_servers
UserDirect ==
    [n \in ReadMcpServers(claude_json) |->
        McpServer("cfg_user_direct", "direct", "user", "~/.claude.json", FALSE)]

should_include_install(install, cwd) ==
    IF cwd # NoCwd
    THEN install.scope = "user"
         \/ (install.scope = "local" /\ install.project_path = cwd)
    ELSE TRUE

\* the plugin names of installed_plugins.json
PluginNames == {"pa", "pb"}

\* InstalledPluginsFile.plugins is a std HashMap: every deserialisation gets
\* its own RandomState, so `for (plugin_name, installs) in installed.plugins`
\* may visit the plugin names in any order
HashOrders == {<<"pa", "pb">>, <<"pb", "pa">>}

\* the installs of one plugin that contribute, in the order of its Vec
InstallsOf(plugin_name, cwd) ==
    SelectSeq(plugins, LAMBDA install :
        /\ install.plugin = plugin_name
        /\ should_include_install(install, cwd)
        /\ install.enabled)

\* variant: the plugin names are visited in sorted order
PluginInstalls_m(cwd) == InstallsOf("pa", cwd) \o InstallsOf("pb", cwd)

\* read_plugin_mcp_servers: the installs that contribute, in iteration order
PluginInstalls(cwd) ==
    InstallsOf(hash_order[1], cwd) \o InstallsOf(hash_order[2], cwd)

\* the tuples of read_plugin_mcp_servers as the or_insert loop sees them:
\* for a name, the first contributing install
PluginServers(cwd) ==
    LET installs == PluginInstalls(cwd)
        names == UNION {installs[i].servers : i \in 1..Len(installs)}
        first(n) == CHOOSE i \in 1..Len(installs) :
                        /\ n \in installs[i].servers
                        /\ \A j \in 1..(i-1) : n \notin installs[j].servers
    IN  [n \in names |->
            McpServer("cfg_plugin", "plugin",
                      IF installs[first(n)].scope = "user"
                      THEN "plugin-user" ELSE "plugin-local",
                      installs[first(n)].plugin, TRUE)]

\* read_project_mcp_servers(cwd): projects[cwd].mcpServers
ProjectServers(cwd) ==
    [n \in (IF ProjectPathKnown(cwd) THEN claude_json.project_servers ELSE {}) |->
        McpServer("cfg_project", "direct", "project", "~/.claude.json projects", FALSE)]

\* read_local_mcp_servers(project_path), read only for a known project path
LocalServers(cwd) ==
    [n \in (IF ProjectPathKnown(cwd) THEN ReadMcpServers(local_mcp) ELSE {}) |->
        McpServer("cfg_local", "mcpjson", "local", "<project>/.mcp.json", TRUE)]

\* the five merge steps of get_mcp_servers_with_state
WithUserMcpjson(map) == Overwrite(map, UserMcpjson)

\* variant: direct servers are inserted over existing entries
WithUserDirect_m(map) == Overwrite(map, UserDirect)

WithUserDirect(map) == OrInsert(map, UserDirect)

\* variant: plugin servers are inserted over existing entries
WithPlugins_m(map, cwd) == Overwrite(map, PluginServers(cwd))

WithPlugins(map, cwd) == OrInsert(map, PluginServers(cwd))

WithProject(map, cwd) == Overwrite(map, ProjectServers(cwd))

\* variant: local servers only fill names that are still free
WithLocal_m(map, cwd) == OrInsert(map, LocalServers(cwd))

WithLocal(map, cwd) == Overwrite(map, LocalServers(cwd))

servers_map(cwd) ==
    WithLocal(WithProject(WithPlugins(WithUserDirect(WithUserMcpjson(NoServers)),
                                      cwd), cwd), cwd)

\* get_settings_path(cwd, false): which settings file is read
get_settings_path(cwd) ==
    IF ProjectPathKnown(cwd) /\ overlay["local"].kind # "absent" THEN "local"
    ELSE IF ProjectPathKnown(cwd) /\ overlay["project"].kind # "absent" THEN "project"
    ELSE "user"

InSeq(x, seq) == \E i \in 1..Len(seq) : seq[i] = x

\* variant: the project array is appended to the root array
read_disabled_mcp_servers_from_claude_json_m(cwd) ==
    IF claude_json.kind # "obj" THEN <<>>
    ELSE IF cwd = Proj /\ claude_json.registered
            /\ claude_json.project_disabled_present
         THEN claude_json.disabled \o claude_json.project_disabled
         ELSE claude_json.disabled

\* helper.rs read_disabled_mcp_servers_from_claude_json (Ok case)
read_disabled_mcp_servers_from_claude_json(cwd) ==
    IF claude_json.kind # "obj" THEN <<>>
    ELSE IF cwd = Proj /\ claude_json.registered
            /\ claude_json.project_disabled_present
         THEN claude_json.project_disabled
         ELSE claude_json.disabled

\* get_mcp_enabled_state returns Ok
EnabledStateOk(cwd) ==
    /\ overlay[get_settings_path(cwd)].kind # "bad"
    /\ claude_json.kind # "bad"

\* variant: a name in the disabled array is disabled whatever the enabled
\* array holds
ComputedState_m(name, server, cwd) ==
    LET file == overlay[get_settings_path(cwd)]
        in_disabled == file.kind = "obj" /\ InSeq(name, file.disabled)
    IN  IF server.source_type = "direct"
        THEN IF InSeq(name, read_disabled_mcp_servers_from_claude_json(cwd))
             THEN "disabled" ELSE "enabled"
        ELSE IF in_disabled THEN "disabled" ELSE "enabled"

\* the state computed for one merged server
ComputedState(name, server, cwd) ==
    LET file == overlay[get_settings_path(cwd)]
        in_enabled == file.kind = "obj" /\ InSeq(name, file.enabled)
        in_disabled == file.kind = "obj" /\ InSeq(name, file.disabled)
    IN  IF server.source_type = "direct"
        THEN IF InSeq(name, read_disabled_mcp_servers_from_claude_json(cwd))
             THEN "disabled" ELSE "enabled"
        ELSE IF in_disabled /\ ~in_enabled THEN "disabled"
             ELSE IF in_enabled /\ in_disabled THEN "runtime-disabled"
             ELSE "enabled"

\* McpServerState list, keyed by name
View(ok, cwd, servers, states) ==
    [ok |-> ok, cwd |-> cwd, servers |-> servers, states |-> states]

NoView == View(FALSE, "", NoServers, [n \in {} |-> ""])

get_mcp_servers_with_state(cwd) ==
    /\ view' = IF EnabledStateOk(cwd)
               THEN LET map == servers_map(cwd)
                    IN  View(TRUE, cwd, map,
                             [n \in DOMAIN map |-> ComputedState(n, map[n], cwd)])
               ELSE View(FALSE, cwd, NoServers, [n \in {} |-> ""])
    /\ hash_order' \in HashOrders
    /\ UNCHANGED <<mcp_json, claude_json, local_mcp, plugins, overlay, global_servers,
                   last_toggle>>

\* Result<HashMap<String, McpServer>, String> of get_global_mcp_servers
GlobalServers(ok, servers) == [ok |-> ok, servers |-> servers]

NoGlobalServers == GlobalServers(FALSE, NoServers)

\* get_global_mcp_servers: ~/.mcp.json first, then the root mcpServers of
\* ~/.claude.json for the names still free; a read error skips the source
get_global_mcp_servers ==
    /\ global_servers' = GlobalServers(TRUE, WithUserDirect(WithUserMcpjson(NoServers)))
    /\ UNCHANGED <<mcp_json, claude_json, local_mcp, plugins, overlay, view, last_toggle,
                   hash_order>>

\* result of a toggle command: its name, Ok / Err and its arguments
Toggled(op, ok, server_name, enabled, cwd) ==
    [op |-> op, ok |-> ok, server_name |-> server_name, enabled |-> enabled, cwd |-> cwd]

NoToggle == Toggled("init", TRUE, "", FALSE, NoCwd)

\* variant: the toggle writes the shared project settings file
settings_write_path_m(cwd) == IF ProjectPathKnown(cwd) THEN "project" ELSE "user"

\* get_settings_path(cwd, true): the settings file a toggle writes
settings_write_path(cwd) == IF ProjectPathKnown(cwd) THEN "local" ELSE "user"

\* variant: retain drops only the first occurrence of the name
RetainName_m(arr, server_name) ==
    LET hit == {i \in 1..Len(arr) : arr[i] = server_name}
    IN  IF hit = {} THEN arr
        ELSE LET f == CHOOSE i \in hit : \A j \in hit : i <= j
             IN  SubSeq(arr, 1, f - 1) \o SubSeq(arr, f + 1, Len(arr))

\* arr.retain(|v| v.as_str() != Some(&server_name))
RetainName(arr, server_name) == SelectSeq(arr, LAMBDA v : v # server_name)

\* retain, then push when the array is the one the toggle selects
ToggleArray(arr, server_name, push) ==
    IF push THEN Append(RetainName(arr, server_name), server_name)
    ELSE RetainName(arr, server_name)

toggle_mcp_server_state(server_name, enabled, cwd) ==
    LET path == settings_write_path(cwd)
        settings == overlay[path]
    IN  IF settings.kind \in {"bad", "arr"}
        THEN /\ last_toggle' = Toggled("toggle_mcp_server_state", FALSE,
                                       server_name, enabled, cwd)
             /\ UNCHANGED <<overlay, user_settings>>
        ELSE /\ overlay' = [overlay EXCEPT ![path] =
                    Overlay("obj",
                            ToggleArray(settings.enabled, server_name, enabled),
                            ToggleArray(settings.disabled, server_name, ~enabled))]
             /\ user_settings' = IF path = "user"
                                 THEN [kind |-> "obj", m |-> user_settings.m]
                                 ELSE user_settings
             /\ last_toggle' = Toggled("toggle_mcp_server_state", TRUE,
                                       server_name, enabled, cwd)

toggle_direct_mcp_server(server_name, enabled, cwd) ==
    IF claude_json.kind = "bad"
    THEN /\ last_toggle' = Toggled("toggle_direct_mcp_server", FALSE,
                                   server_name, enabled, cwd)
         /\ UNCHANGED claude_json
    ELSE /\ claude_json' =
               IF cwd # NoCwd
               THEN [claude_json EXCEPT
                        !.kind = "obj",
                        !.registered = TRUE,
                        !.project_disabled_present = TRUE,
                        !.project_disabled =
                            ToggleArray(claude_json.project_disabled, server_name, ~enabled)]
               ELSE [claude_json EXCEPT
                        !.kind = "obj",
                        !.disabled =
                            ToggleArray(claude_json.disabled, server_name, ~enabled)]
         /\ last_toggle' = Toggled("toggle_direct_mcp_server", TRUE,
                                   server_name, enabled, cwd)

(***************************************************************************)
(* Security templates: install, uninstall and the manifest                 *)
(***************************************************************************)
TplIds == {"d"}

NoFile == "none"

\* a relative path as its components
SkillMd == <<"SKILL.md">>

Escaping == <<"..", "x">>

SkillFileChoices == {<<SkillMd>>, <<SkillMd, Escaping>>, <<Escaping, SkillMd>>}

\* InstalledSecurityPackItem
InstalledSecurityPackItem(template_type, id, target_path) ==
    [template_type |-> template_type, id |-> id, target_path |-> target_path]

\* InstalledSecurityPacksFile as a file: "absent", "bad" or "ok" with items
Manifest(kind, items) == [kind |-> kind, items |-> items]

\* SecurityPackInstallPayload
Payload(template_type, id, content, skill_files, server_name) ==
    [template_type |-> template_type, id |-> id, content |-> content,
     skill_files |-> skill_files, server_name |-> server_name]

\* a directory under ~/.claude/skills and the relative paths written in it
SkillDir(exists, files) == [exists |-> exists, files |-> files]

NoDir == SkillDir(FALSE, {})

\* result of a template command; matched counts the manifest items an
\* uninstall found for its (type, id)
TemplateResult(op, ok, template_type, id, matched) ==
    [op |-> op, ok |-> ok, template_type |-> template_type, id |-> id,
     matched |-> matched]

NoTemplateResult == TemplateResult("init", TRUE, "", "", 0)

\* read_security_packs_manifest: items of a readable manifest
ManifestItems == IF manifest.kind = "ok" THEN manifest.items ELSE <<>>

\* rel.components().any(|c| matches!(c, Component::ParentDir))
HasParentDir(rel) == \E i \in 1..Len(rel) : rel[i] = ".."

\* variant: the existence check of the target is missing
TargetExists_m(md, subdirectory, id) == FALSE

\* target.exists() in install_file_template
TargetExists(md, subdirectory, id) == md[<<subdirectory, id>>] # NoFile

\* the loop over skill_files: writes until a path with a parent-directory
\* component is met; write_ok = FALSE makes the first std::fs::write fail
RECURSIVE WriteSkillFiles(_, _, _)
WriteSkillFiles(skill_files, written, write_ok) ==
    IF skill_files = <<>> THEN [ok |-> TRUE, files |-> written]
    ELSE IF HasParentDir(Head(skill_files)) \/ ~write_ok
         THEN [ok |-> FALSE, files |-> written]
         ELSE WriteSkillFiles(Tail(skill_files), written \cup {Head(skill_files)},
                              write_ok)

\* a registration file that parses but has no mcpServers map to work on:
\* "arr" is a top-level value that is not an object, "nomap" an object whose
\* mcpServers value is not an object
NotAnObject(file) == file.kind = "arr"

NoServerMap(file) == file.kind = "nomap"

\* a template command whose thread panicked: nothing is returned
Panicked(template_type, id) == TemplateResult("panic", FALSE, template_type, id, 0)

\* update_global_mcp_server on ~/.mcp.json; both as_object_mut() results are
\* unwrapped
update_global_mcp_server(file, server_name) ==
    IF file.kind = "bad" THEN [ok |-> FALSE, panicked |-> FALSE, mcp |-> file]
    ELSE IF NotAnObject(file) \/ NoServerMap(file)
    THEN [ok |-> FALSE, panicked |-> TRUE, mcp |-> file]
    ELSE [ok |-> TRUE, panicked |-> FALSE,
          mcp |-> McpFile("obj", file.servers \cup {server_name})]

\* variant: the new item is put in front of the list
PushItem_m(items, item) == <<item>> \o items

\* manifest.items.push(item)
PushItem(items, item) == Append(items, item)

install_security_template(payload, write_ok) ==
    LET fail == /\ last_template' = TemplateResult("install", FALSE,
                                        payload.template_type, payload.id, 0)
                /\ UNCHANGED manifest
        done(item) ==
                /\ manifest' = Manifest("ok", PushItem(ManifestItems, item))
                /\ last_template' = TemplateResult("install", TRUE,
                                        payload.template_type, payload.id, 0)
        subdirectory == IF payload.template_type = "agent" THEN "agents" ELSE "commands"
    IN  IF manifest.kind = "bad"
        THEN fail /\ UNCHANGED <<md_files, skill_dirs, mcp_json>>
        ELSE IF payload.template_type \in {"agent", "command"}
        THEN IF TargetExists(md_files, subdirectory, payload.id) \/ ~write_ok
             THEN fail /\ UNCHANGED <<md_files, skill_dirs, mcp_json>>
             ELSE /\ md_files' = [md_files EXCEPT ![<<subdirectory, payload.id>>] =
                                     payload.content]
                  /\ done(InstalledSecurityPackItem(payload.template_type, payload.id,
                                                    <<subdirectory, payload.id>>))
                  /\ UNCHANGED <<skill_dirs, mcp_json>>
        ELSE IF payload.template_type = "skill"
        THEN IF skill_dirs[payload.id].exists
             THEN fail /\ UNCHANGED <<md_files, skill_dirs, mcp_json>>
             ELSE LET w == WriteSkillFiles(payload.skill_files, {}, write_ok)
                  IN  /\ skill_dirs' = [skill_dirs EXCEPT ![payload.id] =
                                           SkillDir(TRUE, w.files)]
                      /\ IF w.ok
                         THEN done(InstalledSecurityPackItem("skill", payload.id,
                                                             <<"skills", payload.id>>))
                         ELSE fail
                      /\ UNCHANGED <<md_files, mcp_json>>
        ELSE IF payload.template_type = "mcp"
        THEN LET u == update_global_mcp_server(mcp_json, payload.server_name)
             IN  /\ mcp_json' = u.mcp
                 /\ IF u.ok
                    THEN done(InstalledSecurityPackItem("mcp", payload.server_name,
                                                        <<"mcp", "mcp">>))
                    ELSE IF u.panicked
                    THEN /\ last_template' = Panicked("mcp", payload.id)
                         /\ UNCHANGED manifest
                    ELSE fail
                 /\ UNCHANGED <<md_files, skill_dirs>>
        ELSE fail /\ UNCHANGED <<md_files, skill_dirs, mcp_json>>

\* the files uninstall can touch
Fs(md, skills, mcp, settings) ==
    [md |-> md, skills |-> skills, mcp |-> mcp, settings |-> settings]

\* remove_mcp_from_settings on ~/.claude/settings.json
remove_mcp_from_settings(settings, server_name) ==
    IF settings.kind = "absent" THEN [ok |-> TRUE, settings |-> settings]
    ELSE IF settings.kind # "obj" THEN [ok |-> FALSE, settings |-> settings]
    ELSE [ok |-> TRUE,
          settings |-> Overlay("obj", RetainName(settings.enabled, server_name),
                                      RetainName(settings.disabled, server_name))]

\* delete_global_mcp_server: the top-level as_object_mut() is unwrapped;
\* ~/.mcp.json is rewritten before settings.json
delete_global_mcp_server(fs, server_name) ==
    IF NotAnObject(fs.mcp)
    THEN [ok |-> FALSE, panicked |-> TRUE, fs |-> fs]
    ELSE IF fs.mcp.kind # "obj" \/ server_name \notin fs.mcp.servers
    THEN [ok |-> FALSE, panicked |-> FALSE, fs |-> fs]
    ELSE LET r == remove_mcp_from_settings(fs.settings, server_name)
         IN  [ok |-> r.ok, panicked |-> FALSE,
              fs |-> [fs EXCEPT !.mcp = McpFile("obj", fs.mcp.servers \ {server_name}),
                                !.settings = r.settings]]

\* variant: the files are removed, the directory stays
remove_dir_all_m(skills, id) == [skills EXCEPT ![id] = SkillDir(TRUE, {})]

\* std::fs::remove_dir_all on a skill directory
remove_dir_all(skills, id) == [skills EXCEPT ![id] = NoDir]

\* the match arm of uninstall_security_template for one matching item;
\* remove_ok = FALSE makes remove_file / remove_dir_all fail
RemoveArtifact(item, fs, remove_ok) ==
    IF item.template_type \in {"agent", "command"}
    THEN IF fs.md[item.target_path] = NoFile THEN [ok |-> TRUE, panicked |-> FALSE, fs |-> fs]
         ELSE IF ~remove_ok THEN [ok |-> FALSE, panicked |-> FALSE, fs |-> fs]
         ELSE [ok |-> TRUE, panicked |-> FALSE,
               fs |-> [fs EXCEPT !.md[item.target_path] = NoFile]]
    ELSE IF item.template_type = "skill"
    THEN IF ~fs.skills[item.target_path[2]].exists THEN [ok |-> TRUE, panicked |-> FALSE, fs |-> fs]
         ELSE IF ~remove_ok THEN [ok |-> FALSE, panicked |-> FALSE, fs |-> fs]
         ELSE [ok |-> TRUE, panicked |-> FALSE,
               fs |-> [fs EXCEPT !.skills = remove_dir_all(fs.skills, item.target_path[2])]]
    ELSE IF item.template_type = "mcp"
    THEN delete_global_mcp_server(fs, item.id)
    ELSE [ok |-> TRUE, panicked |-> FALSE, fs |-> fs]

\* the loop of uninstall_security_template over manifest.items
RECURSIVE UninstallWalk(_, _, _, _, _)
UninstallWalk(items, template_type, id, fs, remove_ok) ==
    IF items = <<>>
    THEN [ok |-> TRUE, panicked |-> FALSE, fs |-> fs, remaining |-> <<>>, matched |-> 0]
    ELSE IF Head(items).template_type = template_type /\ Head(items).id = id
    THEN LET r == RemoveArtifact(Head(items), fs, remove_ok)
         IN  IF ~r.ok
             THEN [ok |-> FALSE, panicked |-> r.panicked, fs |-> r.fs,
                   remaining |-> <<>>, matched |-> 1]
             ELSE LET rest == UninstallWalk(Tail(items), template_type, id, r.fs, remove_ok)
                  IN  [rest EXCEPT !.matched = @ + 1]
    ELSE LET rest == UninstallWalk(Tail(items), template_type, id, fs, remove_ok)
         IN  [rest EXCEPT !.remaining = <<Head(items)>> \o @]

\* write_security_packs_manifest is reached only when every removal succeeded
ManifestAfterUninstall(walk) ==
    IF walk.ok THEN Manifest("ok", walk.remaining) ELSE manifest

uninstall_security_template(template_type, id, remove_ok) ==
    IF manifest.kind = "bad"
    THEN /\ last_template' = TemplateResult("uninstall", FALSE, template_type, id, 0)
         /\ UNCHANGED <<manifest, md_files, skill_dirs, mcp_json, overlay>>
    ELSE LET walk == UninstallWalk(ManifestItems, template_type, id,
                                   Fs(md_files, skill_dirs, mcp_json, overlay["user"]),
                                   remove_ok)
         IN  /\ md_files' = walk.fs.md
             /\ skill_dirs' = walk.fs.skills
             /\ mcp_json' = walk.fs.mcp
             /\ overlay' = [overlay EXCEPT !["user"] = walk.fs.settings]
             /\ manifest' = ManifestAfterUninstall(walk)
             /\ last_template' = IF walk.panicked THEN Panicked(template_type, id)
                                 ELSE TemplateResult("uninstall", walk.ok, template_type,
                                                     id, walk.matched)

(***************************************************************************)
(* Specifications                                                          *)
(***************************************************************************)
InitProfiles ==
    /\ stores_file \in {"absent", "bad", "ok"}
    /\ configs = <<>>
    /\ notification \in (IF stores_file = "ok" THEN BOOLEAN ELSE {FALSE})
    /\ user_settings \in InitialLive
    /\ last = NoResult
    /\ steps = 0

NoMcp ==
    /\ mcp_json = McpFile("absent", {})
    /\ claude_json = ClaudeJson("absent", {}, <<>>, FALSE, {}, FALSE, <<>>)
    /\ local_mcp = McpFile("absent", {})
    /\ plugins = <<>>
    /\ hash_order = <<"pa", "pb">>
    /\ overlay = [f \in {"user", "project", "local"} |-> Overlay("absent", <<>>, <<>>)]
    /\ view = NoView
    /\ global_servers = NoGlobalServers
    /\ last_toggle = NoToggle

NoTemplates ==
    /\ manifest = Manifest("absent", <<>>)
    /\ md_files = [t \in {"agents", "commands"} \X TplIds |-> NoFile]
    /\ skill_dirs = [id \in TplIds |-> NoDir]
    /\ last_template = NoTemplateResult

NoId == "none"

\* a task: where it stands, the settings value it holds, and how it ended
Task(pc, id, settings, ok) == [pc |-> pc, id |-> id, settings |-> settings, ok |-> ok]

\* neither the hook task nor an activation is under way
NoTasks ==
    /\ hook_task = Task("done", "", Absent, FALSE)
    /\ activation = Task("done", "", Absent, FALSE)

\* ~/.ccconfig exists and stores.json holds no distinct_id
NoStoreMeta ==
    /\ app_dir = TRUE
    /\ distinct_id = NoId
    /\ last_id = NoId

Init == InitProfiles /\ NoMcp /\ NoTemplates /\ NoStoreMeta /\ NoTasks

\* the file contents the merge is explored over
ServerSets == SUBSET Names

McpFiles == {McpFile("absent", {}), McpFile("bad", {})}
              \cup {McpFile("obj", s) : s \in ServerSets}

ClaudeJsons ==
    {ClaudeJson("absent", {}, <<>>, FALSE, {}, FALSE, <<>>),
     ClaudeJson("bad", {}, <<>>, FALSE, {}, FALSE, <<>>)}
    \cup {ClaudeJson("obj", s, d, FALSE, {}, FALSE, <<>>) :
             s \in ServerSets, d \in {<<>>, <<"s1">>}}
    \cup {ClaudeJson("obj", s, d, TRUE, ps, FALSE, <<>>) :
             s \in ServerSets, d \in {<<>>, <<"s1">>}, ps \in ServerSets}

PluginChoices ==
    {<<>>,
     <<Install("pa", "user", "", TRUE, {"s1"})>>,
     <<Install("pb", "local", Proj, TRUE, {"s1", "s2"})>>,
     <<Install("pa", "user", "", FALSE, {"s1"}),
       Install("pb", "local", "/other", TRUE, {"s2"})>>,
     <<Install("pa", "user", "", TRUE, {"s1"}),
       Install("pb", "user", "", TRUE, {"s1"})>>}

UserOverlays == {Overlay("absent", <<>>, <<>>), Overlay("bad", <<>>, <<>>),
                 Overlay("obj", <<"s1">>, <<"s1", "s2">>)}

InitMerge ==
    /\ stores_file = "absent"
    /\ configs = <<>>
    /\ notification = FALSE
    /\ last = NoResult
    /\ steps = 0
    /\ mcp_json \in McpFiles
    /\ claude_json \in ClaudeJsons
    /\ local_mcp \in McpFiles
    /\ plugins \in PluginChoices
    /\ hash_order \in HashOrders
    /\ \E u \in UserOverlays :
          /\ overlay = [f \in {"user", "project", "local"} |->
                           IF f = "user" THEN u ELSE Overlay("absent", <<>>, <<>>)]
          \* overlay["user"] and user_settings are both ~/.claude/settings.json
          /\ user_settings = [kind |-> u.kind, m |-> EmptyMap]
    /\ view = NoView
    /\ global_servers = NoGlobalServers
    /\ last_toggle = NoToggle
    /\ NoTemplates
    /\ NoStoreMeta
    /\ NoTasks

\* the files the toggles and the state computation are explored over
ToggleClaudeJsons ==
    {ClaudeJson("absent", {}, <<>>, FALSE, {}, FALSE, <<>>),
     ClaudeJson("bad", {}, <<>>, FALSE, {}, FALSE, <<>>)}
    \cup {ClaudeJson("obj", {"s2"}, d, FALSE, {}, FALSE, <<>>) : d \in {<<>>, <<"s2">>}}
    \cup {ClaudeJson("obj", {"s2"}, d, TRUE, {"s1"}, FALSE, <<>>) : d \in {<<>>, <<"s2">>}}
    \cup {ClaudeJson("obj", {"s2"}, <<"s2">>, TRUE, {"s1"}, TRUE, pd) :
             pd \in {<<>>, <<"s1">>}}

ToggleOverlays ==
    {[user |-> u, project |-> pr, local |-> l] :
        u \in {Overlay("absent", <<>>, <<>>), Overlay("bad", <<>>, <<>>),
               Overlay("arr", <<>>, <<>>),
               Overlay("obj", <<"s1", "s1">>, <<"s1">>)},
        pr \in {Overlay("absent", <<>>, <<>>), Overlay("obj", <<"s1">>, <<>>)},
        l \in {Overlay("absent", <<>>, <<>>), Overlay("obj", <<>>, <<"s1">>)}}

InitToggle ==
    /\ stores_file = "absent"
    /\ configs = <<>>
    /\ notification = FALSE
    /\ last = NoResult
    /\ steps = 0
    /\ mcp_json = McpFile("obj", {"s1"})
    /\ claude_json \in ToggleClaudeJsons
    /\ local_mcp = McpFile("absent", {})
    /\ plugins = <<Install("pa", "user", "", TRUE, {"s1", "s2"})>>
    /\ hash_order \in HashOrders
    /\ overlay \in ToggleOverlays
    /\ user_settings = [kind |-> overlay["user"].kind, m |-> EmptyMap]
    /\ view = NoView
    /\ global_servers = NoGlobalServers
    /\ last_toggle = NoToggle
    /\ NoTemplates
    /\ NoStoreMeta
    /\ NoTasks

Toggle ==
     \/ \E server_name \in Names, enabled \in BOOLEAN, cwd \in CwdChoices :
           /\ toggle_mcp_server_state(server_name, enabled, cwd)
           /\ UNCHANGED claude_json
     \/ \E server_name \in Names, enabled \in BOOLEAN, cwd \in CwdChoices :
           /\ toggle_direct_mcp_server(server_name, enabled, cwd)
           /\ UNCHANGED <<overlay, user_settings>>

NextToggle ==
    \/ /\ steps < MaxToggles
       /\ steps' = steps + 1
       /\ Toggle
       /\ UNCHANGED <<mcp_json, local_mcp, plugins, view, global_servers, hash_order>>
       /\ UNCHANGED <<stores_file, configs, notification, last>>
       /\ UNCHANGED templateVars
       /\ UNCHANGED storeMeta
       /\ UNCHANGED taskVars
    \/ /\ \E cwd \in CwdChoices : get_mcp_servers_with_state(cwd)
       /\ UNCHANGED profileVars
       /\ UNCHANGED templateVars
       /\ UNCHANGED storeMeta
       /\ UNCHANGED taskVars

SpecToggle == InitToggle /\ [][NextToggle]_vars

NextMerge ==
    /\ \/ \E cwd \in CwdChoices : get_mcp_servers_with_state(cwd)
       \/ get_global_mcp_servers
    /\ UNCHANGED profileVars
    /\ UNCHANGED templateVars
    /\ UNCHANGED storeMeta
    /\ UNCHANGED taskVars

SpecMerge == InitMerge /\ [][NextMerge]_vars

Next ==
    /\ steps < MaxSteps
    /\ steps' = steps + 1
    /\ Command
    /\ UNCHANGED mcpVars
    /\ UNCHANGED templateVars
    /\ UNCHANGED storeMeta
    /\ UNCHANGED taskVars

\* the files the template commands are explored over
TemplateManifests ==
    {Manifest("absent", <<>>), Manifest("bad", <<>>), Manifest("ok", <<>>),
     Manifest("ok", <<InstalledSecurityPackItem("hook", "d", <<"hooks", "d">>)>>),
     \* items of an earlier run, whose artifacts may have been removed by hand since
     Manifest("ok", <<InstalledSecurityPackItem("agent", "d", <<"agents", "d">>)>>),
     Manifest("ok", <<InstalledSecurityPackItem("skill", "d", <<"skills", "d">>)>>),
     Manifest("ok", <<InstalledSecurityPackItem("mcp", "s1", <<"mcp", "mcp">>)>>)}

TemplateMdFiles ==
    {[t \in {"agents", "commands"} \X TplIds |-> NoFile],
     [t \in {"agents", "commands"} \X TplIds |->
         IF t[1] = "agents" THEN "c0" ELSE NoFile]}

TemplateSkillDirs ==
    {[id \in TplIds |-> NoDir], [id \in TplIds |-> SkillDir(TRUE, {<<"own.md">>})]}

TemplateSettings ==
    {Overlay("absent", <<>>, <<>>), Overlay("bad", <<>>, <<>>),
     Overlay("obj", <<"s1">>, <<>>)}

Payloads ==
    {Payload(t, id, "c1", <<>>, "") : t \in {"agent", "command", "hook"}, id \in TplIds}
    \cup {Payload("skill", id, "", fl, "") : id \in TplIds, fl \in SkillFileChoices}
    \cup {Payload("mcp", "s1", "", <<>>, "s1")}

InitTemplates ==
    /\ stores_file = "absent"
    /\ configs = <<>>
    /\ notification = FALSE
    /\ last = NoResult
    /\ steps = 0
    /\ mcp_json \in {McpFile("absent", {}), McpFile("bad", {}), McpFile("obj", {"s2"}),
                     McpFile("arr", {}), McpFile("nomap", {})}
    /\ claude_json = ClaudeJson("absent", {}, <<>>, FALSE, {}, FALSE, <<>>)
    /\ local_mcp = McpFile("absent", {})
    /\ plugins = <<>>
    /\ hash_order = <<"pa", "pb">>
    /\ \E u \in TemplateSettings :
          /\ overlay = [f \in {"user", "project", "local"} |->
                           IF f = "user" THEN u ELSE Overlay("absent", <<>>, <<>>)]
          /\ user_settings = [kind |-> u.kind, m |-> EmptyMap]
    /\ view = NoView
    /\ global_servers = NoGlobalServers
    /\ last_toggle = NoToggle
    /\ manifest \in TemplateManifests
    /\ md_files \in TemplateMdFiles
    /\ skill_dirs \in TemplateSkillDirs
    /\ last_template = NoTemplateResult
    /\ NoStoreMeta
    /\ NoTasks

InstallTemplate ==
    \E payload \in Payloads, write_ok \in BOOLEAN :
        /\ install_security_template(payload, write_ok)
        /\ UNCHANGED overlay

UninstallTemplate ==
    \E template_type \in {"agent", "command", "skill", "mcp", "hook"}, id \in TplIds \cup {"s1"},
       remove_ok \in BOOLEAN :
        uninstall_security_template(template_type, id, remove_ok)

NextTemplates ==
    /\ steps < MaxInstalls
    /\ steps' = steps + 1
    /\ InstallTemplate \/ UninstallTemplate
    /\ UNCHANGED <<stores_file, configs, notification, user_settings, last>>
    /\ UNCHANGED <<claude_json, local_mcp, plugins, view, global_servers, last_toggle,
                   hash_order>>
    /\ UNCHANGED storeMeta
    /\ UNCHANGED taskVars

SpecTemplates == InitTemplates /\ [][NextTemplates]_vars

Spec == Init /\ [][Next]_vars

(***************************************************************************)
(* Properties                                                              *)
(***************************************************************************)
ActiveIdx(cs) == {i \in 1..Len(cs) : cs[i].using}

\* R is L with every key of S set to S's value, and nothing else
IsPartialMerge(L, S, R) ==
    /\ R.kind = "obj"
    /\ DOMAIN R.m = (DOMAIN L.m) \cup (DOMAIN S.m)
    /\ \A k \in DOMAIN S.m : R.m[k] = S.m[k]
    /\ \A k \in (DOMAIN L.m) \ (DOMAIN S.m) : R.m[k] = L.m[k]

\* cs without the stores carrying id, the others in order and untouched
RECURSIVE Remaining(_, _)
Remaining(cs, id) ==
    IF cs = <<>> THEN <<>>
    ELSE IF Head(cs).id = id THEN Remaining(Tail(cs), id)
         ELSE <<Head(cs)>> \o Remaining(Tail(cs), id)

\* the names the project's .mcp.json defines for the view of cwd
LocalDefined(cwd) == IF cwd = Proj THEN ReadMcpServers(local_mcp) ELSE {}

\* the names projects[cwd].mcpServers defines for the view of cwd
ProjectDefined(cwd) ==
    IF cwd = Proj /\ claude_json.kind = "obj" /\ claude_json.registered
    THEN claude_json.project_servers ELSE {}

\* the names a user-scope source defines
UserDefined == (DOMAIN UserMcpjson) \cup (DOMAIN UserDirect)

\* C1: after any sequence of create_config / set_using_config /
\* delete_config calls with caller-chosen ids, starting from an empty or
\* absent collection, the persisted collection holds at most one profile
\* with using = true.
C1_SingleActive == Cardinality(ActiveIdx(configs)) <= 1

\* C2: after a successful set_using_config(id) exactly one profile has
\* using = true, it is the one with identifier id, and every other profile
\* has using = false.
C2_SetUsingExactlyOne ==
    [][\A id \in CallerIds :
         (set_using_config(id) /\ last'.ok) =>
            /\ Cardinality(ActiveIdx(configs')) = 1
            /\ \A i \in 1..Len(configs') :
                  configs'[i].using <=> (configs'[i].id = id)]_vars

\* C3: when a profile whose settings is an object S is activated
\* (set_using_config, create_config on an empty collection, update_config of
\* the active profile) and settings.json holds an object L, settings.json
\* afterwards maps every key of S to S's value, every other key of L to L's
\* value, and has no other key.
C3_PartialMergeOnActivation ==
    [][/\ \A id \in CallerIds :
            (set_using_config(id) /\ last'.ok /\ user_settings.kind = "obj") =>
               \A i \in 1..Len(configs) :
                  (configs[i].id = id /\ configs[i].settings.kind = "obj") =>
                     IsPartialMerge(user_settings, configs[i].settings, user_settings')
       /\ \A id \in Ids, title \in Titles, settings \in SettingsChoices, nano \in NanoIds :
            (/\ create_config(id, title, settings, nano) /\ last'.ok
             /\ configs = <<>>
             /\ user_settings.kind = "obj" /\ settings.kind = "obj") =>
               IsPartialMerge(user_settings, settings, user_settings')
       /\ \A id \in CallerIds, title \in Titles, settings \in SettingsChoices :
            (/\ update_config(id, title, settings) /\ last'.ok
             /\ configs[Position(configs, id)].using
             /\ user_settings.kind = "obj" /\ settings.kind = "obj") =>
               IsPartialMerge(user_settings, settings, user_settings')]_vars

\* C4: create_config on an empty collection returns a profile with
\* using = true and merges its settings into settings.json; the collection
\* then holds, before the new profile, an "Original Config" profile with
\* using = false and the previous content of settings.json if and only if
\* settings.json existed.  On a non-empty collection it returns a profile
\* with using = false, adds no "Original Config" and leaves settings.json.
C4_CreateOnEmpty ==
    [][\A id \in Ids, title \in Titles, settings \in SettingsChoices, nano \in NanoIds :
         (create_config(id, title, settings, nano) /\ last'.ok) =>
            IF configs = <<>>
            THEN /\ last'.using
                 /\ configs' = (IF Exists(user_settings)
                       THEN <<[id |-> nano, title |-> OriginalTitle,
                               settings |-> user_settings, using |-> FALSE]>>
                       ELSE <<>>)
                      \o <<[id |-> id, title |-> title, settings |-> settings, using |-> TRUE]>>
                 /\ (settings.kind = "obj" /\ user_settings.kind \in {"obj", "absent"})
                       => IsPartialMerge(read_json_file(user_settings), settings, user_settings')
                 /\ (settings.kind # "obj" \/ user_settings.kind = "arr")
                       => user_settings' = settings
            ELSE /\ ~last'.using
                 /\ configs' = Append(configs, [id |-> id, title |-> title,
                                  settings |-> settings, using |-> FALSE])
                 /\ user_settings' = user_settings]_vars

C4_Witness ==
    /\ last.op = "create_config" /\ last.ok /\ last.using
    /\ Len(configs) = 2
    /\ configs[1].title = OriginalTitle /\ ~configs[1].using
    /\ configs[1].settings = Obj([a |-> "1", b |-> "2"])
    /\ configs[2].using
    /\ user_settings = Obj([a |-> "1", b |-> "9", c |-> "3"])

\* C5: update_config, delete_config and set_using_config called with an id
\* no profile carries return an error and change neither stores.json nor
\* settings.json; get_store with such an id returns an error.
C5_NotFound ==
    [][\A id \in CallerIds :
         ~HasId(configs, id) =>
            /\ (\/ delete_config(id) \/ set_using_config(id)
                \/ \E title \in Titles, settings \in SettingsChoices :
                      update_config(id, title, settings))
                  => /\ ~last'.ok
                     /\ UNCHANGED <<stores_file, configs, notification, user_settings>>
            /\ get_store(id) => ~last'.ok]_vars

C5_Witness ==
    /\ last.op \in {"delete_config", "set_using_config", "update_config"}
    /\ ~last.ok
    /\ stores_file = "ok" /\ configs # <<>> /\ ReadOk(user_settings)

\* C6: delete_config(id) removes the profile with that id and leaves
\* settings.json and every remaining profile (its using flag included)
\* unchanged; deleting the active profile leaves no active profile.
C6_DeleteFrame ==
    [][\A id \in CallerIds :
         (delete_config(id) /\ last'.ok) =>
            /\ configs' = Remaining(configs, id)
            /\ ~HasId(configs', id)
            /\ user_settings' = user_settings
            /\ (\E i \in ActiveIdx(configs) : configs[i].id = id)
                  => ActiveIdx(configs') = {}]_vars

C6_Witness ==
    /\ last.op = "delete_config" /\ last.ok
    /\ configs # <<>> /\ ActiveIdx(configs) = {}
    /\ user_settings.kind = "obj"

\* C7: after a successful reset_to_original_config no profile has
\* using = true, the env key of settings.json is the empty object, every
\* other top-level key of settings.json has its previous value, and ids,
\* titles and settings of all profiles are unchanged.
C7_ResetClearsEnv ==
    [][(reset_to_original_config /\ last'.ok) =>
          /\ ActiveIdx(configs') = {}
          /\ Len(configs') = Len(configs)
          /\ \A i \in 1..Len(configs) :
                /\ configs'[i].id = configs[i].id
                /\ configs'[i].title = configs[i].title
                /\ configs'[i].settings = configs[i].settings
          /\ user_settings'.kind = "obj"
          /\ "env" \in DOMAIN user_settings'.m
          /\ user_settings'.m["env"] = EmptyObject
          /\ DOMAIN user_settings'.m = (DOMAIN user_settings.m) \cup {"env"}
          /\ \A k \in (DOMAIN user_settings.m) \ {"env"} :
                user_settings'.m[k] = user_settings.m[k]]_vars

\* C8: update_config(id, title, settings) on an existing profile replaces
\* its title and settings, leaves its using flag and every other profile
\* unchanged, and writes settings.json (by partial merge of the new
\* settings) if and only if the updated profile has using = true.
C8_UpdateFrame ==
    [][\A id \in CallerIds, title \in Titles, settings \in SettingsChoices :
         (update_config(id, title, settings) /\ last'.ok) =>
            LET i == Position(configs, id)
            IN  /\ Len(configs') = Len(configs)
                /\ configs'[i] = [id |-> id, title |-> title, settings |-> settings,
                                  using |-> configs[i].using]
                /\ \A j \in 1..Len(configs) : j # i => configs'[j] = configs[j]
                /\ ~configs[i].using => user_settings' = user_settings
                /\ configs[i].using =>
                      IF settings.kind = "obj" /\ user_settings.kind \in {"obj", "absent"}
                      THEN IsPartialMerge(read_json_file(user_settings), settings, user_settings')
                      ELSE user_settings' = settings]_vars

C8_Witness ==
    /\ last.op = "update_config" /\ last.ok /\ last.using
    /\ Len(configs) = 2
    /\ \E i \in 1..2 : configs[i].using /\ configs[i].title = "T2"
                       /\ configs[i].settings = Obj([env |-> "FOO"])
    /\ user_settings.kind = "obj" /\ "a" \in DOMAIN user_settings.m
    /\ user_settings.m["env"] = "FOO"

\* C9 as stated: for a name defined in a user-scope source and in the
\* project's .mcp.json, the entry get_mcp_servers_with_state(cwd) returns
\* carries the local-scope definition, whatever the other sources contain.
C9_LocalWins ==
    (view.ok /\ view.cwd = Proj) =>
       \A n \in UserDefined \cap LocalDefined(view.cwd) :
          /\ n \in DOMAIN view.servers
          /\ view.servers[n].scope = "local"
          /\ view.servers[n].config = "cfg_local"

\* C9 amended: for a name defined in a user-scope source and in the
\* project's .mcp.json, the entry get_mcp_servers_with_state(cwd) returns
\* carries the local-scope definition provided cwd is a key of projects in
\* ~/.claude.json; for an unregistered cwd the project's .mcp.json is not
\* read and no returned entry has scope local.
C9_LocalWinsWhenRegistered ==
    (view.ok /\ view.cwd = Proj) =>
       IF ProjectPathKnown(view.cwd)
       THEN \A n \in UserDefined \cap LocalDefined(view.cwd) :
               /\ n \in DOMAIN view.servers
               /\ view.servers[n].scope = "local"
               /\ view.servers[n].config = "cfg_local"
       ELSE \A n \in DOMAIN view.servers : view.servers[n].scope # "local"

C9_Witness ==
    /\ view.ok /\ view.cwd = Proj /\ ProjectPathKnown(Proj)
    /\ "s1" \in (DOMAIN UserMcpjson) \cap (DOMAIN UserDirect) \cap LocalDefined(Proj)
    /\ "s1" \in claude_json.project_servers
    /\ "s1" \in DOMAIN PluginServers(Proj)
    /\ view.servers["s1"].scope = "local"
    /\ "s2" \in DOMAIN view.servers /\ view.servers["s2"].scope = "user"

\* C10 as stated: in the merged view a plugin-contributed server never
\* replaces a user-scope entry of the same name, and is itself replaced by
\* a project-scope or local-scope entry of the same name.
C10_PluginNonOverride ==
    view.ok =>
       LET P == DOMAIN PluginServers(view.cwd)
       IN  /\ \A n \in P \cap UserDefined :
                view.servers[n].source_type # "plugin"
           /\ \A n \in P \cap ProjectDefined(view.cwd) :
                view.servers[n].scope \in {"project", "local"}
           /\ \A n \in P \cap LocalDefined(view.cwd) :
                view.servers[n].scope = "local"

\* C10 amended: a plugin-contributed server never replaces a user-scope
\* entry of the same name, is replaced by a project-scope entry of the same
\* name, and is replaced by a local-scope entry of the same name provided
\* cwd is a key of projects in ~/.claude.json (otherwise the project's
\* .mcp.json is not read and the plugin or user entry stays).
C10_PluginNonOverrideWhenRegistered ==
    view.ok =>
       LET P == DOMAIN PluginServers(view.cwd)
           L == IF ProjectPathKnown(view.cwd) THEN LocalDefined(view.cwd) ELSE {}
       IN  /\ \A n \in P \cap UserDefined :
                /\ view.servers[n].source_type # "plugin"
                /\ n \notin ProjectDefined(view.cwd) \cup L
                      => view.servers[n].scope = "user"
           /\ \A n \in P \cap ProjectDefined(view.cwd) :
                view.servers[n].scope \in {"project", "local"}
           /\ \A n \in P \cap L : view.servers[n].scope = "local"
           /\ \A n \in P \ (UserDefined \cup ProjectDefined(view.cwd) \cup L) :
                view.servers[n].source_type = "plugin"

C10_Witness ==
    /\ view.ok /\ view.cwd = Proj
    /\ {"s1", "s2"} \subseteq DOMAIN PluginServers(Proj)
    /\ "s1" \in UserDefined /\ "s2" \notin UserDefined
    /\ view.servers["s1"].scope = "user"
    /\ "s2" \in ProjectDefined(Proj)
    /\ view.servers["s2"].scope = "project"

\* the names that reach the view of cwd from a plugin, project or local source
BeyondUser(cwd) ==
    (DOMAIN PluginServers(cwd)) \cup ProjectDefined(cwd) \cup LocalDefined(cwd)

\* C11 as stated: for a name defined in ~/.mcp.json and in the root
\* mcpServers of ~/.claude.json, and in no plugin, project or local source,
\* the merged view reflects the user-direct definition.
C11_UserDirectWins ==
    view.ok =>
       \A n \in ((DOMAIN UserMcpjson) \cap (DOMAIN UserDirect)) \ BeyondUser(view.cwd) :
          /\ n \in DOMAIN view.servers
          /\ view.servers[n].config = "cfg_user_direct"

\* C11 amended: for a name defined in ~/.mcp.json and in the root
\* mcpServers of ~/.claude.json, and in no plugin, project or local source,
\* the merged view reflects the user-mcpjson definition: the user-direct
\* source only fills names ~/.mcp.json does not define.  The map of
\* get_global_mcp_servers does the same.
C11_UserMcpjsonWins ==
    /\ view.ok =>
          /\ \A n \in ((DOMAIN UserMcpjson) \cap (DOMAIN UserDirect)) \ BeyondUser(view.cwd) :
                /\ n \in DOMAIN view.servers
                /\ view.servers[n].config = "cfg_user_mcpjson"
                /\ view.servers[n].source_type = "mcpjson"
          /\ \A n \in ((DOMAIN UserDirect) \ (DOMAIN UserMcpjson)) \ BeyondUser(view.cwd) :
                /\ n \in DOMAIN view.servers
                /\ view.servers[n].config = "cfg_user_direct"
    /\ global_servers.ok =>
          /\ DOMAIN global_servers.servers = UserDefined
          /\ \A n \in DOMAIN UserMcpjson :
                global_servers.servers[n].config = "cfg_user_mcpjson"
          /\ \A n \in (DOMAIN UserDirect) \ (DOMAIN UserMcpjson) :
                global_servers.servers[n].config = "cfg_user_direct"

C11_Witness ==
    /\ view.ok /\ global_servers.ok
    /\ "s1" \in ((DOMAIN UserMcpjson) \cap (DOMAIN UserDirect)) \ BeyondUser(view.cwd)
    /\ "s2" \in ((DOMAIN UserDirect) \ (DOMAIN UserMcpjson)) \ BeyondUser(view.cwd)
    /\ view.servers["s1"].source_type = "mcpjson"
    /\ view.servers["s2"].source_type = "direct"
    /\ global_servers.servers["s1"].source_type = "mcpjson"

\* the names in an overlay array
NamesOf(arr) == {arr[i] : i \in 1..Len(arr)}

\* number of occurrences of a name in an overlay array
Occurrences(arr, name) == Cardinality({i \in 1..Len(arr) : arr[i] = name})

\* the direct disabled overlay for the view of cwd
DirectDisabled(cwd) ==
    IF claude_json.kind # "obj" THEN {}
    ELSE IF cwd # NoCwd /\ claude_json.registered /\ claude_json.project_disabled_present
         THEN NamesOf(claude_json.project_disabled)
         ELSE NamesOf(claude_json.disabled)

\* C12: for every merged server whose source_type is not direct the
\* reported state is runtime-disabled when its name is in both the enabled
\* and the disabled overlay, disabled when it is only in the disabled
\* overlay, and enabled when it is in neither or only in the enabled one.
C12_ThreeState ==
    [][\A cwd \in CwdChoices :
         (get_mcp_servers_with_state(cwd) /\ view'.ok) =>
            LET file == overlay[get_settings_path(cwd)]
            IN  \A n \in DOMAIN view'.servers :
                   view'.servers[n].source_type # "direct" =>
                      LET en == n \in NamesOf(file.enabled)
                          dis == n \in NamesOf(file.disabled)
                      IN  /\ (en /\ dis) => view'.states[n] = "runtime-disabled"
                          /\ (dis /\ ~en) => view'.states[n] = "disabled"
                          /\ ~dis => view'.states[n] = "enabled"]_vars

C12_Witness ==
    /\ view.ok /\ view.cwd = NoCwd
    /\ last_toggle.op = "toggle_mcp_server_state" /\ last_toggle.ok
    /\ {"s1", "s2"} \subseteq DOMAIN view.servers
    /\ view.servers["s1"].source_type = "mcpjson"
    /\ view.servers["s2"].source_type = "plugin"
    /\ view.states["s1"] = "runtime-disabled"
    /\ view.states["s2"] = "disabled"

\* C13: for every merged server with source_type = direct the reported
\* state is disabled if its name is in the direct disabled overlay and
\* enabled otherwise, the overlay being projects[cwd].disabledMcpServers
\* when cwd is given and that array exists and the root disabledMcpServers
\* otherwise; the two arrays are never unioned.
C13_DirectState ==
    [][\A cwd \in CwdChoices :
         (get_mcp_servers_with_state(cwd) /\ view'.ok) =>
            \A n \in DOMAIN view'.servers :
               view'.servers[n].source_type = "direct" =>
                  view'.states[n] = IF n \in DirectDisabled(cwd)
                                    THEN "disabled" ELSE "enabled"]_vars

C13_Witness ==
    /\ view.ok /\ view.cwd = Proj
    /\ claude_json.kind = "obj" /\ claude_json.registered
    /\ claude_json.project_disabled_present
    /\ InSeq("s2", claude_json.disabled)
    /\ ~InSeq("s2", claude_json.project_disabled)
    /\ InSeq("s1", claude_json.project_disabled)
    /\ view.servers["s2"].source_type = "direct"
    /\ view.states["s2"] = "enabled"
    /\ view.servers["s1"].scope = "project"
    /\ view.states["s1"] = "disabled"

Artifacts == <<md_files, skill_dirs, mcp_json, overlay>>

HasItem(items, template_type, id) ==
    \E i \in 1..Len(items) : items[i].template_type = template_type /\ items[i].id = id

UninstallTypes == {"agent", "command", "skill", "mcp", "hook"}

UninstallIds == TplIds \cup {"s1"}

\* C15: uninstalling a skill right after its successful install (which needs
\* no directory of that id beforehand) succeeds when the directory can be
\* removed, and leaves neither the directory nor a manifest item (skill, id).
C15_SkillRoundTrip ==
    [][\A id \in TplIds :
          (/\ last_template = TemplateResult("install", TRUE, "skill", id, 0)
           /\ uninstall_security_template("skill", id, TRUE))
          => /\ last_template'.ok
             /\ ~skill_dirs'[id].exists
             /\ manifest'.kind = "ok"
             /\ ~HasItem(manifest'.items, "skill", id)]_vars

\* the hook item was there from the start, the skill item came and went
C15_Witness ==
    /\ last_template = TemplateResult("uninstall", TRUE, "skill", "d", 1)
    /\ ~skill_dirs["d"].exists
    /\ manifest = Manifest("ok", <<InstalledSecurityPackItem("hook", "d", <<"hooks", "d">>)>>)

\* the target an install of an agent, command or skill would create exists
InstallTargetExists(payload) ==
    \/ payload.template_type = "agent" /\ md_files[<<"agents", payload.id>>] # NoFile
    \/ payload.template_type = "command" /\ md_files[<<"commands", payload.id>>] # NoFile
    \/ payload.template_type = "skill" /\ skill_dirs[payload.id].exists

\* C16: an install of an agent, command or skill whose target file or
\* directory already exists returns an error and leaves the target's content
\* and the manifest unchanged.
C16_NoSilentOverwrite ==
    [][\A payload \in Payloads, write_ok \in BOOLEAN :
          (install_security_template(payload, write_ok) /\ InstallTargetExists(payload))
          => /\ ~last_template'.ok
             /\ md_files' = md_files
             /\ skill_dirs' = skill_dirs
             /\ manifest' = manifest]_vars

C16_Witness ==
    /\ last_template = TemplateResult("install", FALSE, "agent", "d", 0)
    /\ md_files[<<"agents", "d">>] = "c0"
    /\ manifest = Manifest("ok", <<>>)

HasEscapingPath(skill_files) ==
    \E i \in 1..Len(skill_files) : HasParentDir(skill_files[i])

\* C17: a skill install whose file list holds a path with a parent-directory
\* component is rejected before any write: it returns an error, the manifest
\* is unchanged, and a skill directory that did not exist before does not
\* exist afterwards, wherever in the list the path stands.
C17_TraversalAbortsBeforeWrite ==
    [][\A payload \in Payloads, write_ok \in BOOLEAN :
          (/\ install_security_template(payload, write_ok)
           /\ payload.template_type = "skill"
           /\ HasEscapingPath(payload.skill_files))
          => /\ ~last_template'.ok
             /\ manifest' = manifest
             /\ skill_dirs' = skill_dirs]_vars

\* C18: a successful install appends exactly one item for its template to the
\* manifest, keeping the earlier items in order; an install that returns an
\* error leaves the manifest as it was.
C18_TwoPhaseInstall ==
    [][\A payload \in Payloads, write_ok \in BOOLEAN :
          install_security_template(payload, write_ok)
          => IF last_template'.ok
             THEN /\ manifest'.kind = "ok"
                  /\ Len(manifest'.items) = Len(ManifestItems) + 1
                  /\ SubSeq(manifest'.items, 1, Len(ManifestItems)) = ManifestItems
                  /\ manifest'.items[Len(manifest'.items)].template_type
                        = payload.template_type
                  /\ manifest'.items[Len(manifest'.items)].id
                        = (IF payload.template_type = "mcp" THEN payload.server_name
                           ELSE payload.id)
             ELSE manifest' = manifest]_vars

C18_Witness ==
    /\ last_template = TemplateResult("install", TRUE, "skill", "d", 0)
    /\ manifest.kind = "ok"
    /\ Len(manifest.items) = 2
    /\ manifest.items[1].template_type # "skill"
    /\ manifest.items[2] = InstalledSecurityPackItem("skill", "d", <<"skills", "d">>)
    /\ skill_dirs["d"] = SkillDir(TRUE, {SkillMd})

\* the removal of a matching item's file, directory or registry entry fails
RemovalFails(template_type, id, remove_ok) ==
    ~UninstallWalk(ManifestItems, template_type, id,
                   Fs(md_files, skill_dirs, mcp_json, overlay["user"]), remove_ok).ok

\* C19: when uninstall finds a matching agent, command, skill or mcp item and
\* removing its file, directory or registry entry fails, the call returns an
\* error and the manifest is exactly what it was.
C19_FailedUninstallKeepsManifest ==
    [][\A template_type \in {"agent", "command", "skill", "mcp"}, id \in UninstallIds,
          remove_ok \in BOOLEAN :
          (/\ uninstall_security_template(template_type, id, remove_ok)
           /\ HasItem(ManifestItems, template_type, id)
           /\ RemovalFails(template_type, id, remove_ok))
          => /\ last_template'.op = "uninstall"
             /\ ~last_template'.ok
             /\ manifest' = manifest
             /\ HasItem(manifest'.items, template_type, id)]_vars

\* C20: an uninstall whose (type, id) matches no item of a readable manifest
\* returns an error and changes neither the manifest items nor any installed
\* artifact.
C20_UninstallAbsentIsNotFound ==
    [][\A template_type \in UninstallTypes, id \in UninstallIds, remove_ok \in BOOLEAN :
          (/\ uninstall_security_template(template_type, id, remove_ok)
           /\ manifest.kind # "bad"
           /\ ~HasItem(ManifestItems, template_type, id))
          => /\ ~last_template'.ok
             /\ manifest'.items = ManifestItems
             /\ Artifacts' = Artifacts]_vars

(***************************************************************************)
(* The profile store over files left by an earlier run                     *)
(***************************************************************************)
\* stores.json as an earlier run left it: one active profile, while
\* ~/.claude/settings.json is whatever the user or Claude Code made of it since
StoredConfigs == {<<>>, <<ConfigStore("p1", "T1", Obj([b |-> "9", c |-> "3"]), TRUE)>>}

InitStored ==
    /\ stores_file \in {"absent", "bad", "ok"}
    /\ configs \in (IF stores_file = "ok" THEN StoredConfigs ELSE {<<>>})
    /\ notification = (configs # <<>>)
    /\ user_settings \in InitialLive
    /\ last = NoResult
    /\ steps = 0
    /\ NoMcp
    /\ NoTemplates
    /\ NoStoreMeta
    /\ NoTasks

SpecStored == InitStored /\ [][Next]_vars

MalformedFile == stores_file = "bad" \/ user_settings.kind = "bad"

\* C21: when create_config, update_config, set_using_config or
\* reset_to_original_config returns an error while stores.json or
\* settings.json is unparsable, both files hold what they held before.
C21_MalformedAbortsBeforeWrite ==
    [][(/\ last'.op \in {"create_config", "update_config", "set_using_config",
                         "reset_to_original_config"}
        /\ ~last'.ok
        /\ MalformedFile)
       => /\ stores_file' = stores_file
          /\ configs' = configs
          /\ notification' = notification
          /\ user_settings' = user_settings]_vars

(***************************************************************************)
(* First launch: ~/.ccconfig, the distinct id, the notification settings   *)
(***************************************************************************)
\* Uuid::new_v4()
Uuids == {"u1", "u2"}

ReadDistinctId == IF stores_file = "absent" THEN NoId ELSE distinct_id

\* initialize_app_config, spawned at startup: creates ~/.ccconfig
initialize_app_config ==
    /\ app_dir' = TRUE
    /\ last' = Result("initialize_app_config", TRUE, FALSE)
    /\ UNCHANGED <<stores_file, configs, notification, user_settings, distinct_id, last_id>>

get_or_create_distinct_id(new_id) ==
    /\ app_dir' = TRUE
    /\ IF stores_file = "bad"
       THEN /\ last' = Result("get_or_create_distinct_id", FALSE, FALSE)
            /\ last_id' = NoId
            /\ UNCHANGED <<stores_file, configs, notification, distinct_id>>
       ELSE /\ last' = Result("get_or_create_distinct_id", TRUE, FALSE)
            /\ IF ReadDistinctId # NoId
               THEN /\ last_id' = ReadDistinctId
                    /\ UNCHANGED <<stores_file, configs, notification, distinct_id>>
               ELSE /\ last_id' = new_id
                    /\ distinct_id' = new_id
                    /\ notification' = (IF stores_file = "absent" THEN TRUE ELSE notification)
                    /\ configs' = ReadConfigs
                    /\ stores_file' = "ok"
    /\ UNCHANGED user_settings

\* variant: the collection is rebuilt from scratch around the new settings
update_notification_settings_m ==
    /\ IF stores_file = "bad"
       THEN /\ last' = Result("update_notification_settings", FALSE, FALSE)
            /\ UNCHANGED <<stores_file, configs, notification, distinct_id, app_dir>>
       ELSE /\ stores_file' = "ok"
            /\ configs' = ReadConfigs
            /\ distinct_id' = NoId
            /\ notification' = TRUE
            /\ app_dir' = TRUE
            /\ last' = Result("update_notification_settings", TRUE, FALSE)
    /\ UNCHANGED <<user_settings, last_id>>

update_notification_settings ==
    /\ IF stores_file = "bad"
       THEN /\ last' = Result("update_notification_settings", FALSE, FALSE)
            /\ UNCHANGED <<stores_file, configs, notification, distinct_id, app_dir>>
       ELSE /\ stores_file' = "ok"
            /\ configs' = ReadConfigs
            /\ distinct_id' = ReadDistinctId
            /\ notification' = TRUE
            /\ app_dir' = TRUE
            /\ last' = Result("update_notification_settings", TRUE, FALSE)
    /\ UNCHANGED <<user_settings, last_id>>

\* the files a first launch may find: without ~/.ccconfig there is no stores.json
InitStartup ==
    /\ app_dir \in BOOLEAN
    /\ stores_file \in (IF app_dir THEN {"absent", "bad", "ok"} ELSE {"absent"})
    /\ configs = <<>>
    /\ notification \in (IF stores_file = "ok" THEN BOOLEAN ELSE {FALSE})
    /\ distinct_id \in (IF stores_file = "ok" THEN {NoId, "u0"} ELSE {NoId})
    /\ last_id = NoId
    /\ user_settings \in InitialLive
    /\ last = NoResult
    /\ steps = 0
    /\ NoMcp
    /\ NoTemplates
    /\ NoTasks

NextStartup ==
    /\ steps < MaxSteps
    /\ steps' = steps + 1
    /\ \/ /\ Command
          \* create_config starts with ensure_dir(&app_config_path)
          /\ app_dir' = (IF last'.op = "create_config" THEN TRUE ELSE app_dir)
          /\ UNCHANGED <<distinct_id, last_id>>
       \/ initialize_app_config
       \/ \E new_id \in Uuids : get_or_create_distinct_id(new_id)
       \/ update_notification_settings
    /\ UNCHANGED mcpVars
    /\ UNCHANGED templateVars
    /\ UNCHANGED taskVars

SpecStartup == InitStartup /\ [][NextStartup]_vars

\* C22: get_stores called while stores.json does not exist, whether or not
\* ~/.ccconfig exists, returns Ok with no profile; and whenever get_stores
\* returns Ok the persisted collection has its notification settings.
C22_GetStoresToleratesAbsence ==
    [][get_stores
       => /\ stores_file = "absent" => (last'.ok /\ configs' = <<>>)
          /\ last'.ok => (stores_file' = "ok" /\ notification')]_vars

\* C23: once stores.json holds a distinct id, no command changes or removes
\* it, and every get_or_create_distinct_id returns it.
C23_DistinctIdStable ==
    [][ReadDistinctId # NoId
       => /\ stores_file' = "ok"
          /\ distinct_id' = distinct_id
          /\ \A new_id \in Uuids :
                get_or_create_distinct_id(new_id)
                => (last'.ok /\ last_id' = distinct_id)]_vars

C23_Witness ==
    /\ last = Result("get_or_create_distinct_id", TRUE, FALSE)
    /\ last_id = "u0"
    /\ distinct_id = "u0"
    /\ Len(configs) = 1
    /\ notification

\* C24: a run of get_mcp_servers_with_state(cwd) that follows a run with the
\* same cwd over unchanged files returns the same list.
C24_ViewIsPure ==
    [][\A cwd \in CwdChoices :
          (/\ get_mcp_servers_with_state(cwd)
           /\ view.ok
           /\ view.cwd = cwd
           /\ UNCHANGED <<mcp_json, claude_json, local_mcp, plugins, overlay>>)
          => view' = view]_vars

\* C25: installing an mcp template while ~/.mcp.json parses but is not an
\* object, or holds an mcpServers value that is not an object, returns an
\* error to the caller and writes neither ~/.mcp.json nor the manifest.
C25_McpInstallRejectsNonObject ==
    [][\A payload \in Payloads, write_ok \in BOOLEAN :
          (/\ install_security_template(payload, write_ok)
           /\ payload.template_type = "mcp"
           /\ manifest.kind # "bad"
           /\ (NotAnObject(mcp_json) \/ NoServerMap(mcp_json)))
          => /\ last_template' = TemplateResult("install", FALSE, "mcp", payload.id, 0)
             /\ mcp_json' = mcp_json
             /\ manifest' = manifest]_vars

\* get_mcp_enabled_state(cwd): the two overlay arrays it returns
EnabledArray(cwd) == overlay[get_settings_path(cwd)].enabled

DisabledArray(cwd) == overlay[get_settings_path(cwd)].disabled

ReportedState(name, cwd) ==
    IF ~EnabledStateOk(cwd) THEN "error"
    ELSE IF name \notin DOMAIN servers_map(cwd) THEN "none"
    ELSE ComputedState(name, servers_map(cwd)[name], cwd)

\* C27: a successful toggle_mcp_server_state(a, e, cwd) or
\* toggle_direct_mcp_server(a, e, cwd) leaves the state reported for every
\* other server b of the view of cwd as it was.
C27_ToggleFrame ==
    [][\A a \in Names, b \in Names, enabled \in BOOLEAN, cwd \in CwdChoices :
         (/\ a # b
          /\ toggle_mcp_server_state(a, enabled, cwd)
                \/ toggle_direct_mcp_server(a, enabled, cwd)
          /\ last_toggle'.ok
          /\ EnabledStateOk(cwd)
          /\ b \in DOMAIN servers_map(cwd))
         => ReportedState(b, cwd)' = ReportedState(b, cwd)]_vars

\* C28: the manifest never holds two items with the same (type, id).
C28_ManifestUnique ==
    \A i \in 1..Len(ManifestItems), j \in 1..Len(ManifestItems) :
        (/\ ManifestItems[i].template_type = ManifestItems[j].template_type
         /\ ManifestItems[i].id = ManifestItems[j].id)
        => i = j

\* the artifact of an item (type, id) is no longer there
ArtifactGone(template_type, id) ==
    \/ template_type = "agent" /\ id \in TplIds /\ md_files[<<"agents", id>>] = NoFile
    \/ template_type = "command" /\ id \in TplIds /\ md_files[<<"commands", id>>] = NoFile
    \/ template_type = "skill" /\ id \in TplIds /\ ~skill_dirs[id].exists
    \/ /\ template_type = "mcp"
       /\ \/ mcp_json.kind = "absent"
          \/ mcp_json.kind = "obj" /\ id \notin mcp_json.servers

\* C29: when the manifest lists an item (type, id) whose file, directory or
\* server entry is gone, uninstall(type, id) succeeds and the manifest no
\* longer lists the item, for agent, command, skill and mcp.
C29_StaleItemCleared ==
    [][\A template_type \in {"agent", "command", "skill", "mcp"}, id \in UninstallIds,
          remove_ok \in BOOLEAN :
          (/\ uninstall_security_template(template_type, id, remove_ok)
           /\ HasItem(ManifestItems, template_type, id)
           /\ ArtifactGone(template_type, id))
          => /\ last_template'.op = "uninstall"
             /\ last_template'.ok
             /\ ~HasItem(manifest'.items, template_type, id)]_vars

(***************************************************************************)
(* The startup hook task running beside an activation                      *)
(***************************************************************************)
\* the hooks value of settings.json: "old" holds a hook of this application
\* with an outdated command, "new" the latest command, "mine" only hooks of
\* the user
LatestHooks == "new"

\* update_existing_hooks: Some(settings) when a hook command was rewritten
HasOutdatedHook(settings) ==
    settings.kind = "obj" /\ "hooks" \in DOMAIN settings.m /\ settings.m["hooks"] = "old"

WithLatestHooks(settings) ==
    Obj([k \in (DOMAIN settings.m) \cup {"hooks"} |->
            IF k = "hooks" THEN LatestHooks ELSE settings.m[k]])

\* update_claude_code_hook up to and including its read of settings.json;
\* ok says that a write is to follow
hook_read ==
    /\ hook_task.pc = "start"
    /\ hook_task' =
          IF user_settings.kind \in {"bad", "arr"}
          THEN Task("done", "", Absent, FALSE)
          ELSE IF user_settings.kind = "absent"
          THEN \* add_claude_code_hook: update_or_add_hooks on {}
               Task("read", "", WithLatestHooks(read_json_file(user_settings)), TRUE)
          ELSE IF HasOutdatedHook(user_settings)
          THEN Task("read", "", WithLatestHooks(user_settings), TRUE)
          ELSE Task("done", "", Absent, FALSE)
    /\ UNCHANGED <<user_settings, configs, activation, last>>

\* write_json_file(&settings_path, &settings, ..) of the hook task
hook_write ==
    /\ hook_task.pc = "read"
    /\ user_settings' = hook_task.settings
    /\ hook_task' = Task("done", "", hook_task.settings, TRUE)
    /\ UNCHANGED <<configs, activation, last>>

\* set_using_config up to and including its read of settings.json
set_using_read(store_id) ==
    /\ activation.pc = "start"
    /\ IF \/ stores_file # "ok"
          \/ ~HasId(configs, store_id)
          \/ ~ReadOk(user_settings)
       THEN /\ activation' = Task("done", store_id, Absent, FALSE)
            /\ last' = Result("set_using_config", FALSE, FALSE)
       ELSE /\ activation' = Task("read", store_id, read_json_file(user_settings), FALSE)
            /\ UNCHANGED last
    /\ UNCHANGED <<user_settings, configs, hook_task>>

\* the two writes of set_using_config: settings.json, then stores.json
set_using_write ==
    /\ activation.pc = "read"
    /\ user_settings' = MergeSettings(activation.settings,
                                      SelectedSettings(configs, activation.id))
    /\ configs' = SetUsing(configs, activation.id)
    /\ activation' = Task("done", activation.id, activation.settings, TRUE)
    /\ last' = Result("set_using_config", TRUE, FALSE)
    /\ UNCHANGED hook_task

HookProfiles == {Obj([b |-> "9", c |-> "3"]), Obj([env |-> "FOO"]), Arr,
                 Obj([hooks |-> "mine"])}

HookLive == {Absent, Bad, Arr, Obj([a |-> "1", hooks |-> "old"]),
             Obj([b |-> "2", hooks |-> "old"]), Obj([a |-> "1", hooks |-> "new"]),
             Obj([a |-> "1"])}

\* the application starts: the hook task is spawned and the user activates a
\* profile of an existing collection
InitHooks ==
    /\ stores_file = "ok"
    /\ configs \in {<<ConfigStore("p1", "T1", st, FALSE)>> : st \in HookProfiles}
    /\ notification = TRUE
    /\ user_settings \in HookLive
    /\ last = NoResult
    /\ steps = 0
    /\ NoMcp
    /\ NoTemplates
    /\ NoStoreMeta
    /\ hook_task = Task("start", "", Absent, FALSE)
    /\ activation = Task("start", "", Absent, FALSE)

NextHooks ==
    /\ \/ hook_read
       \/ hook_write
       \/ \E store_id \in CallerIds : set_using_read(store_id)
       \/ set_using_write
    /\ UNCHANGED <<stores_file, notification, steps>>
    /\ UNCHANGED mcpVars
    /\ UNCHANGED templateVars
    /\ UNCHANGED storeMeta

SpecHooks == InitHooks /\ [][NextHooks]_vars

\* C30: when the hook task has written its updated hooks value and a
\* set_using_config of a profile (an object without a hooks key) has
\* returned Ok, in whatever order their reads and writes took place,
\* settings.json holds every key of the profile with the profile's value and
\* the updated hooks value.
C30_NoLostUpdate ==
    (/\ hook_task.pc = "done" /\ hook_task.ok
     /\ activation.pc = "done" /\ activation.ok)
    => LET profile == SelectedSettings(configs, activation.id)
       IN  (profile.kind = "obj" /\ "hooks" \notin DOMAIN profile.m)
           => /\ user_settings.kind = "obj"
              /\ \A k \in DOMAIN profile.m :
                    k \in DOMAIN user_settings.m /\ user_settings.m[k] = profile.m[k]
              /\ "hooks" \in DOMAIN user_settings.m
              /\ user_settings.m["hooks"] = LatestHooks

====
